---- MODULE Spec2Model ----
(***************************************************************************)
(* Maze pathfinding engine: the Maze grid model, the PriorityQueue, the    *)
(* seven search variants of PathfindingAlgorithms (dfs, bfs, dijkstra,     *)
(* astar with the manhattan and euclidean heuristics, greedy,              *)
(* bidirectional) and the browser front end that drives them               *)
(* (runAlgorithm, runAllAlgorithms, handleEdit, clearMaze).                *)
(*                                                                         *)
(* Every search is an async function that suspends at `await onVisit`.     *)
(* A frame holds the locals of one invocation; one step of a frame runs    *)
(* from one suspension to the next (or to the return).                     *)
(***************************************************************************)
EXTENDS Integers, Sequences, FiniteSets, TLC

\* ------------------------------------------------------------------ bounds
MaxRows == 3
MaxCols == 3
MaxCells == 9
LaneCols == 5
LaneWalls == 1
MaxClicks == 3
MaxBlockedWalls == 3
MaxSide == 5
MaxRandomWalls == 1
MaxCalls == 3

VARIABLES maze, runs, editMode, allResults, nClicks

vars == <<maze, runs, editMode, allResults, nClicks>>

\* --------------------------------------------------------------- JS values
\* `undefined`, where a coordinate is expected: what Map.get answers for a
\* missing key, and the value of `current` before the first dequeue.  It is
\* no coordinate of any grid.
Undefined == [row |-> -1, col |-> -1]

\* `path: null`.  Every path the code builds holds at least one coordinate
\* (reconstructPath unshifts `end` before any test), so the empty sequence
\* is free to stand for null.
Null == <<>>

Cell(row, col) == [row |-> row, col |-> col]

SameCell(a, b) == a.row = b.row /\ a.col = b.col

\* The Map/Set key `${row},${col}` of a coordinate.
Key(cell) == <<cell.row, cell.col>>

Abs(x) == IF x < 0 THEN -x ELSE x

\* Map.get
MapGet(map, key) == IF key \in DOMAIN map THEN map[key] ELSE Undefined

\* Map.set
MapSet(map, key, value) ==
    [k \in (DOMAIN map) \cup {key} |-> IF k = key THEN value ELSE map[k]]

EmptyMap == [k \in {} |-> Undefined]

\* -------------------------------------------------------------------- Maze
Keys(rows, cols) == (0 .. rows - 1) \X (0 .. cols - 1)

\* Mutant of isValid: the upper bounds off by one (<= for <, shifted).
isValidOffByOne(m, row, col) ==
    row >= 0 /\ row < m.rows - 1 /\ col >= 0 /\ col < m.cols - 1

isValid(m, row, col) ==
    row >= 0 /\ row < m.rows /\ col >= 0 /\ col < m.cols

IsBorder(m, k) ==
    k[1] = 0 \/ k[1] = m.rows - 1 \/ k[2] = 0 \/ k[2] = m.cols - 1

\* What a call that threw leaves in the place of a Maze.  this.grid[row] is
\* undefined for a row the grid does not have, and reading or writing
\* this.grid[row][col] then throws a TypeError.
TypeError == [rows |-> -1, cols |-> -1, grid |-> EmptyMap,
              start |-> Undefined, end |-> Undefined]

\* this.grid[row] is an array
HasRow(m, row) == row >= 0 /\ row < m.rows

\* this.grid[row][col] !== 1, for a row the grid has: an element the row
\* does not have reads as undefined.
NotWall(m, row, col) ==
    <<row, col>> \notin DOMAIN m.grid \/ m.grid[<<row, col>>] # 1

\* initGrid: border walls, empty interior, then start and end cleared.  The
\* two last assignments write an element wherever start and end point, and
\* throw when their row is not in the grid.
initGrid(m) ==
    IF ~HasRow(m, m.start.row) \/ ~HasRow(m, m.end.row) THEN TypeError
    ELSE [m EXCEPT !.grid =
            MapSet(MapSet([k \in Keys(m.rows, m.cols) |->
                              IF IsBorder(m, k) THEN 1 ELSE 0],
                          Key(m.start), 0),
                   Key(m.end), 0)]

\* new Maze(rows, cols)
Maze(rows, cols) ==
    initGrid([rows |-> rows, cols |-> cols,
              grid |-> EmptyMap,
              start |-> Cell(1, 1),
              end |-> Cell(rows - 2, cols - 2)])

\* Mutant of directions: left and right tried before up and down.
directionsLeftFirst == << [dr |-> 0, dc |-> -1], [dr |-> 0, dc |-> 1],
                          [dr |-> -1, dc |-> 0], [dr |-> 1, dc |-> 0] >>

directions == << [dr |-> -1, dc |-> 0], [dr |-> 1, dc |-> 0],
                 [dr |-> 0, dc |-> -1], [dr |-> 0, dc |-> 1] >>

RECURSIVE NeighborsFrom(_, _, _, _)
NeighborsFrom(m, row, col, i) ==
    IF i > Len(directions) THEN <<>>
    ELSE LET newRow == row + directions[i].dr
             newCol == col + directions[i].dc
             rest == NeighborsFrom(m, row, col, i + 1)
         IN  IF isValid(m, newRow, newCol) /\ m.grid[<<newRow, newCol>>] # 1
             THEN <<Cell(newRow, newCol)>> \o rest
             ELSE rest

getNeighbors(m, row, col) == NeighborsFrom(m, row, col, 1)

\* setWall, setStart, setEnd: none of them tests (row, col) against the
\* bounds.  A column outside the row is written as a new element.
setWall(m, row, col, isWall) ==
    IF (row = m.start.row /\ col = m.start.col)
       \/ (row = m.end.row /\ col = m.end.col)
    THEN m
    ELSE IF ~HasRow(m, row) THEN TypeError
    ELSE [m EXCEPT !.grid = MapSet(@, <<row, col>>, IF isWall THEN 1 ELSE 0)]

setStart(m, row, col) ==
    IF ~HasRow(m, row) THEN TypeError
    ELSE IF NotWall(m, row, col) THEN [m EXCEPT !.start = Cell(row, col)]
    ELSE m

setEnd(m, row, col) ==
    IF ~HasRow(m, row) THEN TypeError
    ELSE IF NotWall(m, row, col) THEN [m EXCEPT !.end = Cell(row, col)]
    ELSE m

clear(m) == initGrid(m)

Interior(m) ==
    {k \in Keys(m.rows, m.cols) :
        k[1] >= 1 /\ k[1] < m.rows - 1 /\ k[2] >= 1 /\ k[2] < m.cols - 1}

\* generateRandom(wallProb): initGrid, then every interior cell but start
\* and end becomes a wall when Math.random() < wallProb.  walls is the set
\* of cells for which the draw came out below wallProb.
generateRandom(m, walls) ==
    IF initGrid(m) = TypeError THEN TypeError
    ELSE [initGrid(m) EXCEPT !.grid =
            [k \in DOMAIN @ |->
                IF k \in Interior(m) /\ k # Key(m.start) /\ k # Key(m.end)
                THEN IF k \in walls THEN 1 ELSE 0
                ELSE @[k]]]

getUnvisitedNeighbors(m, grid, cell, step) ==
    SelectSeq(<< Cell(cell.row - step, cell.col), Cell(cell.row + step, cell.col),
                 Cell(cell.row, cell.col - step), Cell(cell.row, cell.col + step) >>,
        LAMBDA n : /\ n.row > 0 /\ n.row < m.rows - 1
                   /\ n.col > 0 /\ n.col < m.cols - 1
                   /\ grid[Key(n)] = 1)

\* The carving loop of generatePerfect: every grid it can end with, one for
\* each way the draws of `next` can come out.
RECURSIVE Carve(_, _, _)
Carve(m, grid, stack) ==
    IF Len(stack) = 0 THEN {grid}
    ELSE LET current == stack[Len(stack)]
             neighbors == getUnvisitedNeighbors(m, grid, current, 2)
         IN  IF Len(neighbors) = 0
             THEN Carve(m, grid, SubSeq(stack, 1, Len(stack) - 1))
             ELSE UNION {
                    LET next == neighbors[j]
                        mid == << current.row + (next.row - current.row) \div 2,
                                  current.col + (next.col - current.col) \div 2 >>
                    IN  Carve(m, [grid EXCEPT ![mid] = 0, ![Key(next)] = 0],
                              Append(stack, next))
                    : j \in DOMAIN neighbors }

\* generatePerfect(): the mazes it can leave.  grid[1][1] = 0 and
\* grid[end.row][end.col] = 0 throw when the grid lacks that row.
generatePerfect(m) ==
    IF ~HasRow(m, 1) \/ ~HasRow(m, m.end.row) THEN {TypeError}
    ELSE { [m EXCEPT !.grid = MapSet(g, Key(m.end), 0)] :
             g \in Carve(m, MapSet([k \in Keys(m.rows, m.cols) |-> 1],
                                   <<1, 1>>, 0),
                         <<Cell(1, 1)>>) }

\* -------------------------------------------------------------- heuristics
\* A priority is the number n + sqrt(sq), n and sq integers: every priority
\* the code computes is an integer (sq = 0) or an integer plus a Euclidean
\* distance, the square root of an integer.
Prio(n, sq) == [n |-> n, sq |-> sq]

manhattanDistance(a, b) == Prio(Abs(a.row - b.row) + Abs(a.col - b.col), 0)

euclideanDistance(a, b) ==
    Prio(0, (a.row - b.row) * (a.row - b.row) + (a.col - b.col) * (a.col - b.col))

\* g + h for an integer g
PrioAdd(g, h) == Prio(g + h.n, h.sq)

\* a.priority - b.priority < 0, exactly: p.n + sqrt(p.sq) < q.n + sqrt(q.sq)
PrioLess(p, q) ==
    LET k == q.n - p.n
    IN  IF k = 0 THEN p.sq < q.sq
        ELSE IF k > 0
             THEN LET c == p.sq - k * k - q.sq
                  IN  c < 0 \/ c * c < 4 * k * k * q.sq
             ELSE LET c == q.sq - p.sq - k * k
                  IN  c > 0 /\ 4 * k * k * p.sq < c * c

\* ----------------------------------------------------------- PriorityQueue
\* Mutant of InsertByPriority: an entry is placed before the entries of equal
\* priority (a sort that is not stable).
RECURSIVE InsertBeforeEqual(_, _)
InsertBeforeEqual(s, e) ==
    IF s = <<>> THEN <<e>>
    ELSE IF ~PrioLess(Head(s).priority, e.priority) THEN <<e>> \o s
    ELSE <<Head(s)>> \o InsertBeforeEqual(Tail(s), e)

RECURSIVE InsertByPriority(_, _)
InsertByPriority(s, e) ==
    IF s = <<>> THEN <<e>>
    ELSE IF PrioLess(e.priority, Head(s).priority) THEN <<e>> \o s
    ELSE <<Head(s)>> \o InsertByPriority(Tail(s), e)

\* values.sort((a, b) => a.priority - b.priority): a stable sort.
RECURSIVE SortByPriority(_)
SortByPriority(s) ==
    IF s = <<>> THEN <<>>
    ELSE InsertByPriority(SortByPriority(SubSeq(s, 1, Len(s) - 1)), s[Len(s)])

enqueue(values, item, priority) ==
    SortByPriority(Append(values, [item |-> item, priority |-> priority]))

isEmpty(values) == Len(values) = 0

\* -------------------------------------------------------- path rebuilding
RECURSIVE WalkToStart(_, _, _, _)
WalkToStart(parent, startKey, current, path) ==
    IF current = Undefined THEN path
    ELSE LET p == <<current>> \o path
         IN  IF Key(current) = startKey THEN p
             ELSE WalkToStart(parent, startKey, MapGet(parent, Key(current)), p)

\* Mutant of reconstructPath: the walk stops before the start is added.
reconstructPathWithoutStart(parent, start, end) ==
    Tail(WalkToStart(parent, Key(start), end, <<>>))

reconstructPath(parent, start, end) ==
    WalkToStart(parent, Key(start), end, <<>>)

\* Mutant of WalkToEnd: pathEnd.unshift(current) for pathEnd.push(current).
RECURSIVE WalkToEndUnshift(_, _, _, _)
WalkToEndUnshift(parentEnd, endKey, current, path) ==
    IF current = Undefined THEN path
    ELSE LET p == <<current>> \o path
         IN  IF Key(current) = endKey THEN p
             ELSE WalkToEndUnshift(parentEnd, endKey,
                                   MapGet(parentEnd, Key(current)), p)

RECURSIVE WalkToEnd(_, _, _, _)
WalkToEnd(parentEnd, endKey, current, path) ==
    IF current = Undefined THEN path
    ELSE LET p == Append(path, current)
         IN  IF Key(current) = endKey THEN p
             ELSE WalkToEnd(parentEnd, endKey, MapGet(parentEnd, Key(current)), p)

\* Mutant of reconstructBidirectionalPath: the backward half starts at the
\* meeting coordinate itself instead of at its parent.
reconstructBidirectionalPathFromMeeting(parentStart, parentEnd, start, meeting, end) ==
    WalkToStart(parentStart, Key(start), meeting, <<>>)
        \o WalkToEnd(parentEnd, Key(end), meeting, <<>>)

reconstructBidirectionalPath(parentStart, parentEnd, start, meeting, end) ==
    LET pathStart == WalkToStart(parentStart, Key(start), meeting, <<>>)
        pathEnd == WalkToEnd(parentEnd, Key(end),
                             MapGet(parentEnd, Key(meeting)), <<>>)
    IN  pathStart \o pathEnd

\* ------------------------------------------------------------------ frames
AlgoNames == {"dfs", "bfs", "dijkstra", "astar-manhattan", "astar-euclidean",
              "greedy", "bidirectional"}

\* What the caller passes as onVisit: nothing, a callback that returns at
\* once (runAllAlgorithms), or the visualizer's callback, which sleeps.
Callbacks == {"omitted", "noop", "visualizer"}

NoResult == [path |-> Null, nodesExplored |-> 0, optimal |-> FALSE,
             heuristic |-> ""]

\* The locals of one invocation.  frontier is dfs's stack, bfs's queue and
\* bidirectional's queueStart; visited and parent are bidirectional's
\* visitedStart and parentStart; dist is dijkstra's distances and astar's
\* gScore.  maze is the Maze object the invocation was handed.  visits is
\* what onVisit has been handed so far, and awaits the await each of them
\* was handed at.
NewFrame(algo, m, cb) ==
    [algo |-> algo, onVisit |-> cb, maze |-> m, called |-> m,
     pc |-> "start", current |-> Undefined,
     frontier |-> <<>>, queueEnd |-> <<>>, pq |-> <<>>,
     visited |-> {}, visitedEnd |-> {},
     parent |-> EmptyMap, parentEnd |-> EmptyMap, dist |-> EmptyMap,
     nodesExplored |-> 0, visits |-> <<>>, awaits |-> <<>>,
     result |-> NoResult]

Optimal(algo) == algo \notin {"dfs", "greedy"}

\* astar(maze, onVisit, heuristic) for the three heuristic selectors of the
\* interface; the page calls it with the first two.
AstarVariants == {"astar-manhattan", "astar-euclidean", "astar-chebyshev"}

\* the `heuristic` argument, which astar hands back in its Result
HeuristicName(algo) ==
    IF algo = "astar-manhattan" THEN "manhattan"
    ELSE IF algo = "astar-euclidean" THEN "euclidean"
    ELSE IF algo = "astar-chebyshev" THEN "chebyshev" ELSE ""

\* Mutant of Return: the entries still waiting in the frontier are counted
\* as explored too.
ReturnCountingEnqueued(f, path) ==
    [f EXCEPT !.pc = "done",
              !.result = [path |-> path,
                          nodesExplored |-> f.nodesExplored + Len(f.frontier)
                                            + Len(f.pq) + Len(f.queueEnd),
                          optimal |-> Optimal(f.algo),
                          heuristic |-> HeuristicName(f.algo)]]

\* return { path, nodesExplored, time, optimal [, heuristic] }
Return(f, path) ==
    [f EXCEPT !.pc = "done",
              !.result = [path |-> path, nodesExplored |-> f.nodesExplored,
                          optimal |-> Optimal(f.algo),
                          heuristic |-> HeuristicName(f.algo)]]

\* Mutant of Visit: nodesExplored is not counted at the dequeue (as if the
\* increment stood after the goal test).
VisitUncounted(f, current, pc) ==
    IF f.onVisit = "omitted"
    THEN [f EXCEPT !.current = current, !.pc = "error"]
    ELSE [f EXCEPT !.current = current,
                   !.visits = Append(@, current),
                   !.awaits = Append(@, pc), !.pc = pc]

\* nodesExplored++; await onVisit(current, 'exploring').  Calling an
\* undefined onVisit throws a TypeError, which rejects the async function's
\* promise; otherwise the invocation is suspended until onVisit's promise
\* settles.  pc names the await the frame is suspended at.
Visit(f, current, pc) ==
    IF f.onVisit = "omitted"
    THEN [f EXCEPT !.current = current, !.nodesExplored = @ + 1,
                   !.pc = "error"]
    ELSE [f EXCEPT !.current = current, !.nodesExplored = @ + 1,
                   !.visits = Append(@, current),
                   !.awaits = Append(@, pc), !.pc = pc]

\* Mutant of PushUnvisited: the visited mark is also written into the grid
\* cell (2 = visited), as searches that keep no separate visited set do.
RECURSIVE PushUnvisitedMarkingGrid(_, _, _)
PushUnvisitedMarkingGrid(f, neighbors, i) ==
    IF i > Len(neighbors) THEN f
    ELSE LET neighbor == neighbors[i]
             key == Key(neighbor)
         IN  IF key \notin f.visited
             THEN PushUnvisitedMarkingGrid(
                    [f EXCEPT !.visited = @ \cup {key},
                              !.parent = MapSet(@, key, f.current),
                              !.frontier = Append(@, neighbor),
                              !.maze.grid[key] = 2],
                    neighbors, i + 1)
             ELSE PushUnvisitedMarkingGrid(f, neighbors, i + 1)

\* for (const neighbor of neighbors)
\*     if (!visited.has(key)) { visited.add(key); parent.set(key, current);
\*                              stack.push(neighbor) }
RECURSIVE PushUnvisited(_, _, _)
PushUnvisited(f, neighbors, i) ==
    IF i > Len(neighbors) THEN f
    ELSE LET neighbor == neighbors[i]
             key == Key(neighbor)
         IN  IF key \notin f.visited
             THEN PushUnvisited(
                    [f EXCEPT !.visited = @ \cup {key},
                              !.parent = MapSet(@, key, f.current),
                              !.frontier = Append(@, neighbor)],
                    neighbors, i + 1)
             ELSE PushUnvisited(f, neighbors, i + 1)

AtEnd(f) == SameCell(f.current, f.maze.end)

\* Mutant of Neighbors: a coordinate that is a wall is not expanded.
NeighborsOfOpenCell(f) ==
    IF f.maze.grid[Key(f.current)] = 1 THEN <<>>
    ELSE getNeighbors(f.maze, f.current.row, f.current.col)

Neighbors(f) == getNeighbors(f.maze, f.current.row, f.current.col)

\* --- dfs
dfsInit(f) ==
    [f EXCEPT !.frontier = <<f.maze.start>>,
              !.visited = {Key(f.maze.start)}]

\* while (stack.length > 0) { const current = stack.pop(); ...
dfsLoop(f) ==
    IF Len(f.frontier) > 0
    THEN Visit([f EXCEPT !.frontier = SubSeq(@, 1, Len(@) - 1)],
               f.frontier[Len(f.frontier)], "awaitVisit")
    ELSE Return(f, Null)

\* the rest of the loop body, after the await
dfsBody(f) ==
    IF AtEnd(f)
    THEN Return(f, reconstructPath(f.parent, f.maze.start, f.maze.end))
    ELSE dfsLoop(PushUnvisited(f, Neighbors(f), 1))

\* --- bfs
bfsInit(f) ==
    [f EXCEPT !.frontier = <<f.maze.start>>,
              !.visited = {Key(f.maze.start)}]

\* Mutant of bfsLoop: queue.pop() for queue.shift().
bfsLoopPop(f) ==
    IF Len(f.frontier) > 0
    THEN Visit([f EXCEPT !.frontier = SubSeq(@, 1, Len(@) - 1)],
               f.frontier[Len(f.frontier)], "awaitVisit")
    ELSE Return(f, Null)

\* while (queue.length > 0) { const current = queue.shift(); ...
bfsLoop(f) ==
    IF Len(f.frontier) > 0
    THEN Visit([f EXCEPT !.frontier = Tail(@)], Head(f.frontier), "awaitVisit")
    ELSE Return(f, Null)

\* Mutant of bfsBody: the search stops as soon as the goal is enqueued.
bfsBodyStopsOnEnqueue(f) ==
    IF AtEnd(f)
    THEN Return(f, reconstructPath(f.parent, f.maze.start, f.maze.end))
    ELSE IF Key(f.maze.end) \in PushUnvisited(f, Neighbors(f), 1).visited
         THEN Return(PushUnvisited(f, Neighbors(f), 1),
                     reconstructPath(PushUnvisited(f, Neighbors(f), 1).parent,
                                     f.maze.start, f.maze.end))
         ELSE bfsLoop(PushUnvisited(f, Neighbors(f), 1))

bfsBody(f) ==
    IF AtEnd(f)
    THEN Return(f, reconstructPath(f.parent, f.maze.start, f.maze.end))
    ELSE bfsLoop(PushUnvisited(f, Neighbors(f), 1))

\* --- dijkstra and astar
heuristicFunc(algo, a, b) ==
    IF algo = "astar-euclidean" THEN euclideanDistance(a, b)
    ELSE manhattanDistance(a, b)

dijkstraInit(f) ==
    [f EXCEPT !.dist = MapSet(@, Key(f.maze.start), 0),
              !.pq = enqueue(@, f.maze.start, Prio(0, 0))]

astarInit(f) ==
    [f EXCEPT !.dist = MapSet(@, Key(f.maze.start), 0),
              !.pq = enqueue(@, f.maze.start,
                             heuristicFunc(f.algo, f.maze.start, f.maze.end))]

\* Mutant of pqLoop: no `if (visited.has(currentKey)) continue`.
pqLoopNoSkip(f) ==
    IF ~isEmpty(f.pq)
    THEN Visit([f EXCEPT !.pq = Tail(@),
                         !.visited = @ \cup {Key(Head(f.pq).item)}],
               Head(f.pq).item, "awaitVisit")
    ELSE Return(f, Null)

\* Mutant of pqLoop: the stale entry is tested at the head of the queue and
\* `continue` leaves it there, so the loop spins on it and never returns.
pqLoopKeepsStale(f) ==
    IF ~isEmpty(f.pq)
    THEN IF Key(Head(f.pq).item) \in f.visited
         THEN [f EXCEPT !.pc = "spin"]
         ELSE Visit([f EXCEPT !.pq = Tail(@),
                              !.visited = @ \cup {Key(Head(f.pq).item)}],
                    Head(f.pq).item, "awaitVisit")
    ELSE Return(f, Null)

\* while (!pq.isEmpty()) { const current = pq.dequeue();
\*     if (visited.has(currentKey)) continue; visited.add(currentKey); ...
\* dijkstra and astar share this loop head.
RECURSIVE pqLoop(_)
pqLoop(f) ==
    IF ~isEmpty(f.pq)
    THEN LET current == Head(f.pq).item
             g == [f EXCEPT !.pq = Tail(@)]
         IN  IF Key(current) \in f.visited THEN pqLoop(g)
             ELSE Visit([g EXCEPT !.visited = @ \cup {Key(current)}],
                        current, "awaitVisit")
    ELSE Return(f, Null)

\* Mutant of dijkstraRelax: `<=` for `<`, so a coordinate reached again at
\* the same distance gets a new parent and a second queue entry.
RECURSIVE dijkstraRelaxOnTies(_, _, _)
dijkstraRelaxOnTies(f, neighbors, i) ==
    IF i > Len(neighbors) THEN f
    ELSE LET neighbor == neighbors[i]
             neighborKey == Key(neighbor)
             newDist == f.dist[Key(f.current)] + 1
         IN  IF neighborKey \notin DOMAIN f.dist \/ newDist <= f.dist[neighborKey]
             THEN dijkstraRelaxOnTies(
                    [f EXCEPT !.dist = MapSet(@, neighborKey, newDist),
                              !.parent = MapSet(@, neighborKey, f.current),
                              !.pq = enqueue(@, neighbor, Prio(newDist, 0))],
                    neighbors, i + 1)
             ELSE dijkstraRelaxOnTies(f, neighbors, i + 1)

\* if (!distances.has(neighborKey) || newDist < distances.get(neighborKey))
\*     { distances.set(...); parent.set(...); pq.enqueue(neighbor, newDist) }
RECURSIVE dijkstraRelax(_, _, _)
dijkstraRelax(f, neighbors, i) ==
    IF i > Len(neighbors) THEN f
    ELSE LET neighbor == neighbors[i]
             neighborKey == Key(neighbor)
             newDist == f.dist[Key(f.current)] + 1
         IN  IF neighborKey \notin DOMAIN f.dist \/ newDist < f.dist[neighborKey]
             THEN dijkstraRelax(
                    [f EXCEPT !.dist = MapSet(@, neighborKey, newDist),
                              !.parent = MapSet(@, neighborKey, f.current),
                              !.pq = enqueue(@, neighbor, Prio(newDist, 0))],
                    neighbors, i + 1)
             ELSE dijkstraRelax(f, neighbors, i + 1)

dijkstraBody(f) ==
    IF AtEnd(f)
    THEN Return(f, reconstructPath(f.parent, f.maze.start, f.maze.end))
    ELSE pqLoop(dijkstraRelax(f, Neighbors(f), 1))

\* Mutant of astarRelax: the frontier is keyed by h alone (fScore set to h,
\* tentativeGScore not added).
RECURSIVE astarRelaxByH(_, _, _)
astarRelaxByH(f, neighbors, i) ==
    IF i > Len(neighbors) THEN f
    ELSE LET neighbor == neighbors[i]
             neighborKey == Key(neighbor)
             tentativeGScore == f.dist[Key(f.current)] + 1
         IN  IF neighborKey \notin DOMAIN f.dist
                \/ tentativeGScore < f.dist[neighborKey]
             THEN astarRelaxByH(
                    [f EXCEPT !.parent = MapSet(@, neighborKey, f.current),
                              !.dist = MapSet(@, neighborKey, tentativeGScore),
                              !.pq = enqueue(@, neighbor,
                                  heuristicFunc(f.algo, neighbor, f.maze.end))],
                    neighbors, i + 1)
             ELSE astarRelaxByH(f, neighbors, i + 1)

\* fScore is written and read back at once; the priority is tentativeGScore + h.
RECURSIVE astarRelax(_, _, _)
astarRelax(f, neighbors, i) ==
    IF i > Len(neighbors) THEN f
    ELSE LET neighbor == neighbors[i]
             neighborKey == Key(neighbor)
             tentativeGScore == f.dist[Key(f.current)] + 1
         IN  IF neighborKey \notin DOMAIN f.dist
                \/ tentativeGScore < f.dist[neighborKey]
             THEN astarRelax(
                    [f EXCEPT !.parent = MapSet(@, neighborKey, f.current),
                              !.dist = MapSet(@, neighborKey, tentativeGScore),
                              !.pq = enqueue(@, neighbor,
                                  PrioAdd(tentativeGScore,
                                      heuristicFunc(f.algo, neighbor, f.maze.end)))],
                    neighbors, i + 1)
             ELSE astarRelax(f, neighbors, i + 1)

astarBody(f) ==
    IF AtEnd(f)
    THEN Return(f, reconstructPath(f.parent, f.maze.start, f.maze.end))
    ELSE pqLoop(astarRelax(f, Neighbors(f), 1))

\* --- greedy
greedyInit(f) ==
    [f EXCEPT !.pq = enqueue(@, f.maze.start,
                             manhattanDistance(f.maze.start, f.maze.end)),
              !.visited = {Key(f.maze.start)}]

greedyLoop(f) ==
    IF ~isEmpty(f.pq)
    THEN Visit([f EXCEPT !.pq = Tail(@)], Head(f.pq).item, "awaitVisit")
    ELSE Return(f, Null)

RECURSIVE greedyExpand(_, _, _)
greedyExpand(f, neighbors, i) ==
    IF i > Len(neighbors) THEN f
    ELSE LET neighbor == neighbors[i]
             key == Key(neighbor)
         IN  IF key \notin f.visited
             THEN greedyExpand(
                    [f EXCEPT !.visited = @ \cup {key},
                              !.parent = MapSet(@, key, f.current),
                              !.pq = enqueue(@, neighbor,
                                  manhattanDistance(neighbor, f.maze.end))],
                    neighbors, i + 1)
             ELSE greedyExpand(f, neighbors, i + 1)

greedyBody(f) ==
    IF AtEnd(f)
    THEN Return(f, reconstructPath(f.parent, f.maze.start, f.maze.end))
    ELSE greedyLoop(greedyExpand(f, Neighbors(f), 1))

\* --- bidirectional
bidirectionalInit(f) ==
    [f EXCEPT !.frontier = <<f.maze.start>>, !.queueEnd = <<f.maze.end>>,
              !.visited = {Key(f.maze.start)},
              !.visitedEnd = {Key(f.maze.end)}]

RECURSIVE PushUnvisitedEnd(_, _, _)
PushUnvisitedEnd(f, neighbors, i) ==
    IF i > Len(neighbors) THEN f
    ELSE LET neighbor == neighbors[i]
             key == Key(neighbor)
         IN  IF key \notin f.visitedEnd
             THEN PushUnvisitedEnd(
                    [f EXCEPT !.visitedEnd = @ \cup {key},
                              !.parentEnd = MapSet(@, key, f.current),
                              !.queueEnd = Append(@, neighbor)],
                    neighbors, i + 1)
             ELSE PushUnvisitedEnd(f, neighbors, i + 1)

\* Mutant of bidirectionalLoop: `||` for `&&` in the loop condition, so the
\* search goes on with one direction when the other has run dry.
bidirectionalLoopEither(f) ==
    IF Len(f.frontier) > 0
    THEN Visit([f EXCEPT !.frontier = Tail(@)], Head(f.frontier), "awaitVisit")
    ELSE IF Len(f.queueEnd) > 0
         THEN Visit([f EXCEPT !.queueEnd = Tail(@)], Head(f.queueEnd),
                    "awaitVisitEnd")
         ELSE Return(f, Null)

\* while (queueStart.length > 0 && queueEnd.length > 0) {
\*     if (queueStart.length > 0) { const current = queueStart.shift(); ...
bidirectionalLoop(f) ==
    IF Len(f.frontier) > 0 /\ Len(f.queueEnd) > 0
    THEN Visit([f EXCEPT !.frontier = Tail(@)], Head(f.frontier), "awaitVisit")
    ELSE Return(f, Null)

\* Mutant of bidirectionalEndHalf: queueEnd.pop() for queueEnd.shift().
bidirectionalEndHalfPop(f) ==
    IF Len(f.queueEnd) > 0
    THEN Visit([f EXCEPT !.queueEnd = SubSeq(@, 1, Len(@) - 1)],
               f.queueEnd[Len(f.queueEnd)], "awaitVisitEnd")
    ELSE bidirectionalLoop(f)

\* if (queueEnd.length > 0) { const current = queueEnd.shift(); ...
bidirectionalEndHalf(f) ==
    IF Len(f.queueEnd) > 0
    THEN Visit([f EXCEPT !.queueEnd = Tail(@)], Head(f.queueEnd),
               "awaitVisitEnd")
    ELSE bidirectionalLoop(f)

\* "Expand from start", after its await
bidirectionalStartBody(f) ==
    IF Key(f.current) \in f.visitedEnd
    THEN Return(f, reconstructBidirectionalPath(f.parent, f.parentEnd,
                       f.maze.start, f.current, f.maze.end))
    ELSE bidirectionalEndHalf(PushUnvisited(f, Neighbors(f), 1))

\* "Expand from end", after its await
bidirectionalEndBody(f) ==
    IF Key(f.current) \in f.visited
    THEN Return(f, reconstructBidirectionalPath(f.parent, f.parentEnd,
                       f.maze.start, f.current, f.maze.end))
    ELSE bidirectionalLoop(PushUnvisitedEnd(f, Neighbors(f), 1))

\* --- one invocation
\* The call: from the first statement to the first await (or the return).
Begin(algo, m, cb) ==
    LET f == NewFrame(algo, m, cb)
    IN  CASE algo = "dfs" -> dfsLoop(dfsInit(f))
          [] algo = "bfs" -> bfsLoop(bfsInit(f))
          [] algo = "dijkstra" -> pqLoop(dijkstraInit(f))
          [] algo \in AstarVariants -> pqLoop(astarInit(f))
          [] algo = "greedy" -> greedyLoop(greedyInit(f))
          [] algo = "bidirectional" -> bidirectionalLoop(bidirectionalInit(f))

Suspended(f) == f.pc \in {"awaitVisit", "awaitVisitEnd"}

\* onVisit's promise has settled: from the await to the next one (or the
\* return).
Continue(f) ==
    CASE f.algo = "dfs" -> dfsBody(f)
      [] f.algo = "bfs" -> bfsBody(f)
      [] f.algo = "dijkstra" -> dijkstraBody(f)
      [] f.algo \in AstarVariants -> astarBody(f)
      [] f.algo = "greedy" -> greedyBody(f)
      [] f.algo = "bidirectional" /\ f.pc = "awaitVisit" -> bidirectionalStartBody(f)
      [] f.algo = "bidirectional" /\ f.pc = "awaitVisitEnd" -> bidirectionalEndBody(f)

\* An invocation nothing interleaves with, run to its return.
RECURSIVE Finish(_)
Finish(f) == IF Suspended(f) THEN Finish(Continue(f)) ELSE f

RunToEnd(algo, m, cb) == Finish(Begin(algo, m, cb))

\* ----------------------------------------------------------------- engine
\* The mazes a search can be handed: every grid of at least 2 x 2 cells
\* (the constructor's start and end need row 1 and column 1) and at most
\* MaxCells cells, with any walls, start and end on any two walkable cells.
\* setWall, setStart and setEnd reach each of them from new Maze(rows, cols).
Shapes ==
    {d \in (2 .. MaxRows) \X (2 .. MaxCols) : d[1] * d[2] <= MaxCells}

Walkable(grid) == {k \in DOMAIN grid : grid[k] # 1}

Walls(grid) == {k \in DOMAIN grid : grid[k] = 1}

\* m is a rows x cols maze with at most maxWalls walls, start and end on
\* walkable cells.
IsMazeOf(m, rows, cols, maxWalls) ==
    \E g \in [Keys(rows, cols) -> {0, 1}] :
        /\ Cardinality(Walls(g)) <= maxWalls
        /\ \E s \in Walkable(g), e \in Walkable(g) :
               m = [rows |-> rows, cols |-> cols, grid |-> g,
                    start |-> Cell(s[1], s[2]), end |-> Cell(e[1], e[2])]

\* Two-row mazes of LaneCols columns with at most LaneWalls walls: long
\* enough for a search that follows the heuristic alone to take a detour.
IsLaneMaze(m) == IsMazeOf(m, 2, LaneCols, LaneWalls)

NoEditMode == "none"

\* A 3 x 5 maze on which astar reaches a coordinate a second time at a
\* lower gScore and enqueues it again, leaving a stale entry behind:
\*     . S . . .
\*     . # . . #
\*     . . . # E
DetourMaze ==
    [rows |-> 3, cols |-> 5,
     grid |-> [k \in Keys(3, 5) |->
                  IF k \in {<<1, 1>>, <<1, 4>>, <<2, 3>>} THEN 1 ELSE 0],
     start |-> Cell(0, 1), end |-> Cell(2, 4)]

\* ... and new Maze(5, 5) as the constructor leaves it: walled border, open
\* interior, start (1, 1), end (3, 3).
Init ==
    /\ \/ \E d \in Shapes : IsMazeOf(maze, d[1], d[2], d[1] * d[2])
       \/ IsLaneMaze(maze)
       \/ maze = Maze(5, 5)
       \/ maze = DetourMaze
    /\ runs = <<>>
    /\ editMode = NoEditMode
    /\ allResults = <<>>
    /\ nClicks = 0

\* Every frame that was handed the Maze object `maze` names sees what is
\* written to it.
Shared(rs, m) == [i \in DOMAIN rs |-> [rs[i] EXCEPT !.maze = m]]

\* PathfindingAlgorithms.<algo>(maze, onVisit), up to its first await.
CallAlgorithm(algo, cb) ==
    /\ runs = <<>>
    /\ \E f \in {Begin(algo, maze, cb)} :
           /\ runs' = <<f>>
           /\ maze' = f.maze
    /\ UNCHANGED <<editMode, allResults, nClicks>>

\* The awaited onVisit has returned: the invocation goes on to its next
\* await or to its return.
OnVisitReturns(i) ==
    /\ i \in DOMAIN runs
    /\ Suspended(runs[i])
    /\ \E f \in {Continue(runs[i])} :
           /\ runs' = Shared([runs EXCEPT ![i] = f], f.maze)
           /\ maze' = f.maze
    /\ UNCHANGED <<editMode, allResults, nClicks>>

\* One call of one variant on the maze, with a callback that returns: that
\* is all the engine sees of onVisit (the no-op and the visualizer's differ
\* only in when the caller lets the invocation go on).
Next ==
    \/ \E algo \in AlgoNames : CallAlgorithm(algo, "noop")
    \/ OnVisitReturns(1)

Spec == Init /\ [][Next]_vars

\* The mazes whose start or end is a wall.  No search tests the cell it
\* starts from.  generatePerfect() walls the start in when it was moved off
\* (1, 1) and setWall() then opens any other cell; grid, start and end are
\* also public fields of the Maze object.
IsBlockedMaze(m, rows, cols) ==
    \E g \in [Keys(rows, cols) -> {0, 1}] :
        /\ Cardinality(Walls(g)) <= MaxBlockedWalls
        /\ \E s \in Keys(rows, cols), e \in Keys(rows, cols) :
               /\ g[s] = 1 \/ g[e] = 1
               /\ m = [rows |-> rows, cols |-> cols, grid |-> g,
                       start |-> Cell(s[1], s[2]), end |-> Cell(e[1], e[2])]

InitBlocked ==
    /\ \E d \in Shapes : IsBlockedMaze(maze, d[1], d[2])
    /\ runs = <<>>
    /\ editMode = NoEditMode
    /\ allResults = <<>>
    /\ nClicks = 0

SpecBlocked == InitBlocked /\ [][Next]_vars

\* ---------------------------------------------------------------- web app
EditModes == {"wall", "erase", "start", "end"}

algorithms ==
    << [name |-> "dfs", label |-> "DFS"],
       [name |-> "bfs", label |-> "BFS"],
       [name |-> "dijkstra", label |-> "Dijkstra"],
       [name |-> "astar-manhattan", label |-> "A* (Manhattan)"],
       [name |-> "astar-euclidean", label |-> "A* (Euclidean)"],
       [name |-> "greedy", label |-> "Greedy"],
       [name |-> "bidirectional", label |-> "Bidirectional"] >>

\* window.onload: generateMaze() builds new Maze(rows, cols), here with the
\* inputs rows = 3 and cols = 4: a walled border around the start cell and
\* the end cell, where generateRandom has nothing to draw.
InitUI ==
    /\ maze = Maze(3, 4)
    /\ runs = <<>>
    /\ editMode = NoEditMode
    /\ allResults = <<>>
    /\ nClicks = 0

\* The user acts at most MaxClicks times; timers fire freely.
Click == nClicks < MaxClicks /\ nClicks' = nClicks + 1

setEditMode(mode) ==
    /\ Click
    /\ editMode' = IF editMode = mode THEN NoEditMode ELSE mode
    /\ UNCHANGED <<maze, runs, allResults>>

\* The switch of handleEdit, for an in-bounds (row, col).
EditedMaze(m, mode, row, col) ==
    CASE mode = "wall" -> setWall(m, row, col, TRUE)
      [] mode = "erase" -> setWall(m, row, col, FALSE)
      [] mode = "start" -> setStart(m, row, col)
      [] mode = "end" -> setEnd(m, row, col)

\* A mouse event over cell (row, col) with an edit mode chosen.  Without a
\* mode, or outside the grid, handleEdit returns at once.
handleEdit(row, col) ==
    /\ editMode # NoEditMode
    /\ ~(row < 0 \/ row >= maze.rows \/ col < 0 \/ col >= maze.cols)
    /\ Click
    /\ maze' = EditedMaze(maze, editMode, row, col)
    /\ runs' = Shared(runs, maze')
    /\ editMode' = IF editMode \in {"start", "end"} THEN NoEditMode ELSE editMode
    /\ UNCHANGED allResults

clearMaze ==
    /\ Click
    /\ maze' = clear(maze)
    /\ runs' = Shared(runs, maze')
    /\ UNCHANGED <<editMode, allResults>>

\* runAlgorithm(algoName), up to the first `await sleep(animationSpeed)`
\* inside its onVisit.
runAlgorithm(algoName) ==
    /\ Click
    /\ \E f \in {Begin(algoName, maze, "visualizer")} :
           /\ runs' = Shared(Append(runs, f), f.maze)
           /\ maze' = f.maze
    /\ UNCHANGED <<editMode, allResults>>

\* The timer of sleep(animationSpeed) fires for invocation i.
sleepDone(i) == OnVisitReturns(i)

\* runAllAlgorithms.  Its onVisit awaits nothing, so each await resumes in a
\* microtask and the whole loop runs before the next event is handled.
RECURSIVE RunEach(_, _, _)
RunEach(m, i, results) ==
    IF i > Len(algorithms) THEN [maze |-> m, results |-> results]
    ELSE LET f == RunToEnd(algorithms[i].name, m, "noop")
         IN  RunEach(f.maze, i + 1,
                     Append(results, [name |-> algorithms[i].label,
                                      path |-> f.result.path,
                                      nodesExplored |-> f.result.nodesExplored,
                                      optimal |-> f.result.optimal,
                                      heuristic |-> f.result.heuristic]))

\* Mutant of runAllAlgorithms: no `allResults = []` before the loop.
runAllAlgorithmsAppending ==
    /\ Click
    /\ \E all \in {RunEach(maze, 1, allResults)} :
           /\ allResults' = all.results
           /\ maze' = all.maze
           /\ runs' = Shared(runs, all.maze)
    /\ UNCHANGED editMode

runAllAlgorithms ==
    /\ Click
    /\ \E all \in {RunEach(maze, 1, <<>>)} :
           /\ allResults' = all.results
           /\ maze' = all.maze
           /\ runs' = Shared(runs, all.maze)
    /\ UNCHANGED editMode

NextUI ==
    \/ \E mode \in EditModes : setEditMode(mode)
    \/ \E row \in 0 .. maze.rows - 1, col \in 0 .. maze.cols - 1 :
           handleEdit(row, col)
    \/ clearMaze
    \/ \E algoName \in AlgoNames : runAlgorithm(algoName)
    \/ \E i \in DOMAIN runs : sleepDone(i)
    \/ runAllAlgorithms

SpecUI == InitUI /\ [][NextUI]_vars

\* ------------------------------------------------------ the Maze object
\* The Maze object of the page under the calls that build and edit it.  A
\* call that throws leaves `maze` as it was (in generateMaze the assignment
\* `maze = new Maze(rows, cols)` is not reached).
InitMaze ==
    /\ maze = Maze(3, 3)
    /\ runs = <<>>
    /\ editMode = NoEditMode
    /\ allResults = <<>>
    /\ nClicks = 0

Call ==
    /\ nClicks < MaxCalls
    /\ nClicks' = nClicks + 1
    /\ UNCHANGED <<runs, editMode, allResults>>

Kept(m) == IF m = TypeError THEN maze ELSE m

\* generateMaze(), with the values of the rows and cols inputs.
generateMaze(rows, cols, walls) ==
    /\ Call
    /\ maze' = Kept(generateRandom(Maze(rows, cols), walls))

\* generatePerfectMaze()
generatePerfectMaze(rows, cols) ==
    /\ Call
    /\ IF Maze(rows, cols) = TypeError THEN maze' = maze
       ELSE maze' \in generatePerfect(Maze(rows, cols))

callSetWall(row, col, isWall) ==
    /\ Call
    /\ maze' = Kept(setWall(maze, row, col, isWall))

callSetStart(row, col) ==
    /\ Call
    /\ maze' = Kept(setStart(maze, row, col))

callSetEnd(row, col) ==
    /\ Call
    /\ maze' = Kept(setEnd(maze, row, col))

callClear ==
    /\ Call
    /\ maze' = Kept(clear(maze))

callGenerateRandom(walls) ==
    /\ Call
    /\ maze' = Kept(generateRandom(maze, walls))

callGeneratePerfect ==
    /\ Call
    /\ \E m \in generatePerfect(maze) : maze' = Kept(m)

RandomWalls(m) ==
    {walls \in SUBSET Interior(m) : Cardinality(walls) <= MaxRandomWalls}

NextMaze ==
    \/ \E rows \in 0 .. MaxSide, cols \in 0 .. MaxSide :
           \E walls \in RandomWalls([rows |-> rows, cols |-> cols]) :
               generateMaze(rows, cols, walls)
    \/ \E rows \in 0 .. MaxSide, cols \in 0 .. MaxSide :
           generatePerfectMaze(rows, cols)
    \/ \E row \in 0 .. maze.rows - 1, col \in 0 .. maze.cols - 1 :
           \/ \E isWall \in BOOLEAN : callSetWall(row, col, isWall)
           \/ callSetStart(row, col)
           \/ callSetEnd(row, col)
    \/ callClear
    \/ \E walls \in RandomWalls(maze) : callGenerateRandom(walls)
    \/ callGeneratePerfect

SpecMaze == InitMaze /\ [][NextMaze]_vars

\* ------------------------------------------------------- reference notions
\* The walkable 4-connected grid graph, stated without the code's
\* getNeighbors: two keys are adjacent when they differ by one unit in one
\* axis.
Adjacent(a, b) == Abs(a[1] - b[1]) + Abs(a[2] - b[2]) = 1

StartEndWalkable(m) ==
    /\ Key(m.start) \in Walkable(m.grid)
    /\ Key(m.end) \in Walkable(m.grid)

\* Breadth-first levels from `level`: the number of steps to `goal`, or -1
\* when no walkable route leads there.
RECURSIVE StepsTo(_, _, _, _, _)
StepsTo(open, goal, level, seen, d) ==
    IF goal \in level THEN d
    ELSE LET next == {k \in open \ seen : \E j \in level : Adjacent(j, k)}
         IN  IF next = {} THEN -1
             ELSE StepsTo(open, goal, next, seen \cup next, d + 1)

ShortestDistance(m) ==
    StepsTo(Walkable(m.grid), Key(m.end), {Key(m.start)}, {Key(m.start)}, 0)

Reachable(m) == ShortestDistance(m) >= 0

Returned(f) == f.pc = "done"

HasPath(f) == Returned(f) /\ f.result.path # Null

\* A walk from the maze's start to its end over walkable cells of the grid.
ValidPath(path, m) ==
    /\ Len(path) >= 1
    /\ path[1] = m.start
    /\ path[Len(path)] = m.end
    /\ \A i \in 1 .. Len(path) - 1 : Adjacent(Key(path[i]), Key(path[i + 1]))
    /\ \A i \in 1 .. Len(path) : Key(path[i]) \in Walkable(m.grid)

\* ------------------------------------------------------------------ claims
\* C1: for a maze with walkable start and end, a path returned by any of
\* the seven variants begins at maze.start, ends at maze.end, moves one
\* unit in one axis at each step and stays on non-wall cells of the grid.
C1_ReturnedPathIsValid ==
    \A i \in DOMAIN runs :
        (HasPath(runs[i]) /\ StartEndWalkable(runs[i].called))
            => ValidPath(runs[i].result.path, runs[i].called)

\* Each variant has returned a path of several steps that turns a corner.
C1_Witness ==
    \E i \in DOMAIN runs :
        /\ HasPath(runs[i])
        /\ runs[i].algo = "bidirectional"
        /\ Len(runs[i].result.path) >= 4
        /\ \E k \in DOMAIN runs[i].called.grid : runs[i].called.grid[k] = 1

C3_BidirectionalIsShortest ==
    \A i \in DOMAIN runs :
        (HasPath(runs[i]) /\ runs[i].algo = "bidirectional"
            /\ StartEndWalkable(runs[i].called))
        => /\ Len(runs[i].result.path) - 1 = ShortestDistance(runs[i].called)
           /\ Len(runs[i].result.path)
                = Len(RunToEnd("bfs", runs[i].called, "noop").result.path)

\* bidirectional() has returned on a maze where the two searches met in
\* the middle of a route around a wall.
C3_Witness ==
    \E i \in DOMAIN runs :
        /\ HasPath(runs[i])
        /\ runs[i].algo = "bidirectional"
        /\ Len(runs[i].result.path) >= 5
        /\ runs[i].parentEnd # EmptyMap

\* C4: bfs() and dijkstra() are optimal: on a solvable maze each returns a
\* path with as many steps as the shortest route from start to end.
C4_BfsDijkstraAreShortest ==
    \A i \in DOMAIN runs :
        (HasPath(runs[i]) /\ runs[i].algo \in {"bfs", "dijkstra"}
            /\ StartEndWalkable(runs[i].called))
        => Len(runs[i].result.path) - 1 = ShortestDistance(runs[i].called)

\* dijkstra() has returned a route of several steps on a maze where dfs()
\* would not have returned a shortest one.
C4_Witness ==
    \E i \in DOMAIN runs :
        /\ HasPath(runs[i])
        /\ runs[i].algo = "dijkstra"
        /\ Len(runs[i].result.path) >= 4
        /\ Len(RunToEnd("dfs", runs[i].called, "noop").result.path)
             > Len(runs[i].result.path)

\* C5: astar() is optimal with the manhattan and with the euclidean
\* heuristic: on a solvable maze it returns a path with as many steps as
\* the shortest route.
C5_AstarIsShortest ==
    \A i \in DOMAIN runs :
        (HasPath(runs[i])
            /\ runs[i].algo \in {"astar-manhattan", "astar-euclidean"}
            /\ StartEndWalkable(runs[i].called))
        => Len(runs[i].result.path) - 1 = ShortestDistance(runs[i].called)

\* astar() with the euclidean heuristic has returned a route that is longer
\* than the manhattan distance between start and end: the heuristic
\* underestimated and the search had to go around a wall.
C5_Witness ==
    \E i \in DOMAIN runs :
        /\ HasPath(runs[i])
        /\ runs[i].algo = "astar-euclidean"
        /\ Len(runs[i].result.path) - 1
             > manhattanDistance(runs[i].called.start, runs[i].called.end).n

\* C8: no search writes to the maze: across every step of dfs, bfs,
\* dijkstra, astar, greedy and bidirectional, from the call to the return,
\* maze.grid, maze.start, maze.end, maze.rows and maze.cols keep their
\* values.
C8_SearchLeavesMazeAlone ==
    [][ /\ maze' = maze
        /\ \A i \in DOMAIN runs' : runs'[i].maze = runs'[i].called ]_vars

\* A search that expanded several coordinates has returned.
C8_Witness ==
    \E i \in DOMAIN runs :
        /\ Returned(runs[i])
        /\ runs[i].algo = "dfs"
        /\ runs[i].nodesExplored >= 4
        /\ runs[i].maze = maze

\* C9: when maze.start equals maze.end, each of the seven variants returns
\* path = [start] and nodesExplored = 1, and expands nothing but the start.
C9_StartIsEnd ==
    \A i \in DOMAIN runs :
        SameCell(runs[i].called.start, runs[i].called.end)
        => /\ runs[i].pc \in {"awaitVisit", "done"}
           /\ runs[i].visits = <<runs[i].called.start>>
           /\ Returned(runs[i])
                => /\ runs[i].result.path = <<runs[i].called.start>>
                   /\ runs[i].result.nodesExplored = 1

\* bidirectional() has returned on a maze whose start is its end, with
\* walkable cells around it.
C9_Witness ==
    \E i \in DOMAIN runs :
        /\ Returned(runs[i])
        /\ runs[i].algo = "bidirectional"
        /\ SameCell(runs[i].called.start, runs[i].called.end)
        /\ Len(getNeighbors(runs[i].called, runs[i].called.start.row,
                            runs[i].called.start.col)) >= 2

\* C10: whatever is passed as onVisit (nothing, a no-op, the visualizer's
\* callback), every variant completes without error on every maze and
\* returns the same path and the same nodesExplored.
C10_OnVisitIsOptional ==
    \A algo \in AlgoNames :
        LET omitted == RunToEnd(algo, maze, "omitted")
            noop == RunToEnd(algo, maze, "noop")
            visualizer == RunToEnd(algo, maze, "visualizer")
        IN  /\ Returned(omitted) /\ Returned(noop) /\ Returned(visualizer)
            /\ omitted.result.path = noop.result.path
            /\ noop.result.path = visualizer.result.path
            /\ omitted.result.nodesExplored = noop.result.nodesExplored
            /\ noop.result.nodesExplored = visualizer.result.nodesExplored

\* C6: the grid is read-only during a run: while an invocation started by
\* runAlgorithm has not returned, the grid cells, maze.start and maze.end
\* it reads are those it was called with.
C6_GridReadOnlyDuringRun ==
    \A i \in DOMAIN runs :
        Suspended(runs[i]) => runs[i].maze = runs[i].called

\* C7: no two runs execute concurrently against the same maze: at most one
\* invocation is between its call and its return.
C7_OneRunAtATime ==
    Cardinality({i \in DOMAIN runs : Suspended(runs[i])}) <= 1

\* C11: determinism.  A second run of the same variant on the same grid,
\* start and end returns the same path and the same nodesExplored and hands
\* onVisit the same coordinates in the same order; and an entry enqueued
\* with a priority the queue already holds is dequeued after the entries
\* that were enqueued before it (insertion order among equal priorities).
InsertedInOrder(values, e) ==
    SelectSeq(values, LAMBDA x : ~PrioLess(e.priority, x.priority))
        \o <<e>>
        \o SelectSeq(values, LAMBDA x : PrioLess(e.priority, x.priority))

Orthogonal(row, col) ==
    << Cell(row - 1, col), Cell(row + 1, col),
       Cell(row, col - 1), Cell(row, col + 1) >>

OpenOrthogonal(m, row, col) ==
    SelectSeq(Orthogonal(row, col),
        LAMBDA c : Key(c) \in Keys(m.rows, m.cols) /\ m.grid[Key(c)] # 1)

\* Stated for every coordinate of the maze a search is about to be called
\* on, and for the coordinate each search is expanding.
C12_NeighborsAreOrthogonalOpenCells ==
    /\ runs = <<>> =>
           \A row \in 0 .. maze.rows - 1, col \in 0 .. maze.cols - 1 :
               getNeighbors(maze, row, col) = OpenOrthogonal(maze, row, col)
    /\ \A i \in DOMAIN runs :
           Suspended(runs[i]) =>
               Neighbors(runs[i])
                 = OpenOrthogonal(runs[i].maze, runs[i].current.row,
                                  runs[i].current.col)

\* A search is expanding the centre of a 3 x 3 grid, where getNeighbors
\* leaves out one wall and returns the three other neighbours.
C12_Witness ==
    \E i \in DOMAIN runs :
        /\ Suspended(runs[i])
        /\ runs[i].nodesExplored >= 2
        /\ maze.rows = 3 /\ maze.cols = 3
        /\ runs[i].current = Cell(1, 1)
        /\ maze.grid[<<0, 1>>] = 1
        /\ Len(Neighbors(runs[i])) = 3

\* C13: a coordinate outside the grid, one step beyond the border included,
\* never raises an error and yields false or empty: isValid is false,
\* getNeighbors is empty, and setWall, setStart and setEnd return without
\* error and leave the maze as it was.
C13_OutOfRangeIsHarmless ==
    \A row \in -1 .. maze.rows, col \in -1 .. maze.cols :
        ~(row \in 0 .. maze.rows - 1 /\ col \in 0 .. maze.cols - 1)
        => /\ ~isValid(maze, row, col)
           /\ getNeighbors(maze, row, col) = <<>>
           /\ setWall(maze, row, col, TRUE) = maze
           /\ setWall(maze, row, col, FALSE) = maze
           /\ setStart(maze, row, col) = maze
           /\ setEnd(maze, row, col) = maze

\* C14 (as the code has it): with maze.start or maze.end on a wall every
\* variant still returns a Result without an error, after expanding no
\* coordinate more than once per direction; but the path is not always
\* null.  The blocked start is expanded like any coordinate, so dfs, bfs,
\* dijkstra, astar and greedy return a path exactly when the end is open
\* (or is the start) and a route of open cells leads from the start to it;
\* every path returned is a walk from start to end that is open everywhere
\* but at the blocked endpoints.
Opened(m, keys) ==
    [m EXCEPT !.grid = [k \in DOMAIN @ |-> IF k \in keys THEN 0 ELSE @[k]]]

C15_ZeroSizedMazeIsRejected ==
    maze.rows # 0 /\ maze.cols # 0

\* C16: the heuristic selector is honoured: with each of manhattan,
\* euclidean and chebyshev, astar returns that name in its Result and keys
\* every coordinate of its frontier by its g plus the distance function of
\* that name to the end, chebyshev being max(|dRow|, |dCol|).
chebyshevDistance(a, b) ==
    Prio(IF Abs(a.row - b.row) > Abs(a.col - b.col)
         THEN Abs(a.row - b.row) ELSE Abs(a.col - b.col), 0)

NamedDistance(name, a, b) ==
    CASE name = "manhattan" -> manhattanDistance(a, b)
      [] name = "euclidean" -> euclideanDistance(a, b)
      [] name = "chebyshev" -> chebyshevDistance(a, b)

\* The frontier of f is keyed by g + the distance called name: the cheapest
\* entry of each coordinate carries its gScore plus that distance.
KeyedBy(f, name) ==
    \A k \in DOMAIN f.pq :
        LET expected ==
                PrioAdd(f.dist[Key(f.pq[k].item)],
                        NamedDistance(name, f.pq[k].item, f.maze.end))
        IN  /\ ~PrioLess(f.pq[k].priority, expected)
            /\ \E j \in DOMAIN f.pq :
                   /\ f.pq[j].item = f.pq[k].item
                   /\ f.pq[j].priority = expected

C16_HeuristicSelectorIsHonoured ==
    \A name \in {"manhattan", "euclidean", "chebyshev"} :
        \A algo \in {a \in AstarVariants : HeuristicName(a) = name} :
            /\ RunToEnd(algo, maze, "noop").result.heuristic = name
            /\ KeyedBy(RunToEnd(algo, maze, "noop"), name)

\* C17: scenario A.  On the 5 x 5 grid with a blocked border and no inner
\* wall, start (1, 1) and end (3, 3), bfs and astar with the manhattan
\* heuristic each return a path of exactly 5 coordinates, and astar's
\* nodesExplored is at most that of bfs.
ScenarioA(m) ==
    /\ m.rows = 5 /\ m.cols = 5
    /\ m.start = Cell(1, 1) /\ m.end = Cell(3, 3)
    /\ Walls(m.grid) = {k \in Keys(5, 5) : IsBorder(m, k)}

C17_ScenarioA ==
    \A i \in DOMAIN runs :
        (Returned(runs[i]) /\ ScenarioA(runs[i].called))
        => /\ runs[i].algo \in {"bfs", "astar-manhattan"}
                => Len(runs[i].result.path) = 5
           /\ runs[i].algo = "astar-manhattan"
                => runs[i].result.nodesExplored
                     <= RunToEnd("bfs", runs[i].called, "noop")
                            .result.nodesExplored
           /\ runs[i].algo = "bfs"
                => RunToEnd("astar-manhattan", runs[i].called, "noop")
                       .result.nodesExplored
                     <= runs[i].result.nodesExplored

\* astar with the manhattan heuristic has returned on the scenario's grid.
C17_Witness ==
    \E i \in DOMAIN runs :
        /\ ScenarioA(runs[i].called)
        /\ HasPath(runs[i])
        /\ runs[i].algo = "astar-manhattan"
        /\ runs[i].result.nodesExplored >= 5

\* C18: for a maze of at least 3 x 3 cells, right after clear(),
\* generateRandom(p), generatePerfect() or a construction (generateMaze,
\* generatePerfectMaze), every cell of row 0, row rows - 1, column 0 and
\* column cols - 1 is a wall, whatever setWall, setStart and setEnd did to
\* the maze before.
BorderBlocked(m) ==
    \A k \in Keys(m.rows, m.cols) : IsBorder(m, k) => m.grid[k] = 1

\* The inner walls of m: what the draws of generateRandom must have been
\* to leave m.
WallsDrawn(m) == Walls(m.grid) \cap Interior(m)

\* The step was one of those calls, and it built the maze of the next state.
Regenerated ==
    \/ callClear
    \/ /\ Cardinality(WallsDrawn(maze')) <= MaxRandomWalls
       /\ callGenerateRandom(WallsDrawn(maze'))
    \/ callGeneratePerfect
    \/ /\ maze'.rows \in 3 .. MaxSide /\ maze'.cols \in 3 .. MaxSide
       /\ \/ /\ Cardinality(WallsDrawn(maze')) <= MaxRandomWalls
             /\ generateMaze(maze'.rows, maze'.cols, WallsDrawn(maze'))
          \/ generatePerfectMaze(maze'.rows, maze'.cols)

\* Stated as: a step that leaves a border cell open in a maze of at least
\* 3 x 3 cells is none of those calls.
C18_BorderIsBlockedAfterGeneration ==
    [][ (maze'.rows >= 3 /\ maze'.cols >= 3 /\ ~BorderBlocked(maze'))
            => ~Regenerated ]_vars

\* C19: generateMaze() keeps the start and the end where the user put
\* them: a random generation with the rows and cols inputs untouched
\* leaves maze.start and maze.end at the coordinates they had.
C19_GenerateMazeKeepsStartAndEnd ==
    [][ (/\ Maze(maze.rows, maze.cols) # TypeError
         /\ Cardinality(WallsDrawn(maze')) <= MaxRandomWalls
         /\ generateMaze(maze.rows, maze.cols, WallsDrawn(maze')))
            => (maze'.start = maze.start /\ maze'.end = maze.end) ]_vars

\* C20: no re-expansion.  Within one run no coordinate is handed to onVisit
\* twice; for bidirectional, not twice by the forward search and not twice
\* by the backward search.  In dijkstra and astar a queue entry of a
\* coordinate already visited is dropped without being processed.
C20_NoReExpansion ==
    \A i \in DOMAIN runs :
        \A j, k \in DOMAIN runs[i].visits :
            (j < k /\ runs[i].visits[j] = runs[i].visits[k])
            => /\ runs[i].algo = "bidirectional"
               /\ runs[i].awaits[j] # runs[i].awaits[k]

\* The invocation f after k more resumptions.
RECURSIVE Steps(_, _)
Steps(f, k) ==
    IF k = 0 \/ ~Suspended(f) THEN f ELSE Steps(Continue(f), k - 1)

\* f's queue holds an entry of a coordinate it has visited.
HoldsStaleEntry(f) ==
    /\ f.algo \in {"dijkstra"} \cup AstarVariants
    /\ \E k \in DOMAIN f.pq : Key(f.pq[k].item) \in f.visited

\* astar has emptied its queue on a maze where, on the way, the queue held
\* an entry of a coordinate already visited.
C20_Witness ==
    \E i \in DOMAIN runs :
        /\ Returned(runs[i])
        /\ runs[i].algo = "astar-manhattan"
        /\ runs[i].result.path = Null
        /\ isEmpty(runs[i].pq)
        /\ \E k \in DOMAIN runs[i].visits :
               HoldsStaleEntry(Steps(Begin(runs[i].algo, runs[i].called, "noop"), k))

\* ------------------------------------------------------------------- C21
\* The entries a frame still holds in its stack or queues.
Waiting(f) == Len(f.frontier) + Len(f.pq) + Len(f.queueEnd)

\* C21: nodesExplored counts the coordinates handed to onVisit, one per
\* dequeue-and-process step and both directions of bidirectional summed: at
\* every await the counter equals the number of onVisit calls made so far,
\* and the Result's nodesExplored is that number, whatever is left in the
\* frontier.
C21_NodesExploredCountsVisits ==
    \A i \in DOMAIN runs :
        /\ runs[i].nodesExplored = Len(runs[i].visits)
        /\ Returned(runs[i]) =>
               runs[i].result.nodesExplored = Len(runs[i].visits)

\* A search returned while entries it had enqueued were never processed.
C21_Witness ==
    \E i \in DOMAIN runs :
        /\ Returned(runs[i])
        /\ Waiting(runs[i]) > 0
        /\ runs[i].result.nodesExplored >= 2
        /\ runs[i].result.nodesExplored = Len(runs[i].visits)

\* ------------------------------------------------------------------- C22
\* The grids termination is checked on: every grid of at least 2 x 2 and at
\* most MaxLiveCells cells, walls anywhere, start and end on any two cells
\* (walkable or not), and the detour maze, on which astar leaves stale
\* entries in its queue.
MaxLiveCells == 6

LiveShapes ==
    {d \in (2 .. MaxLiveCells) \X (2 .. MaxLiveCells) :
        d[1] * d[2] <= MaxLiveCells}

IsAnyMaze(m, rows, cols) ==
    \E g \in [Keys(rows, cols) -> {0, 1}], s \in Keys(rows, cols),
       e \in Keys(rows, cols) :
        m = [rows |-> rows, cols |-> cols, grid |-> g,
             start |-> Cell(s[1], s[2]), end |-> Cell(e[1], e[2])]

InitFair ==
    /\ \/ \E d \in LiveShapes : IsAnyMaze(maze, d[1], d[2])
       \/ maze = DetourMaze
    /\ runs = <<>>
    /\ editMode = NoEditMode
    /\ allResults = <<>>
    /\ nClicks = 0

\* An invocation is suspended at an await: this is ENABLED
\* <<OnVisitReturns(1)>>_vars, since a resumed invocation always changes
\* (it returns, or hands onVisit one more coordinate).
CanResume == runs # <<>> /\ Suspended(runs[1])

\* The engine when every awaited onVisit call returns, so that a suspended
\* invocation is eventually resumed: weak fairness of OnVisitReturns(1),
\* with WF_vars(A) written out as
\* []<>~ENABLED <<A>>_vars \/ []<><<A>>_vars.
SpecFair ==
    /\ InitFair
    /\ [][Next]_vars
    /\ ([]<>~CanResume \/ []<><<OnVisitReturns(1)>>_vars)

\* The frontier a Result of null was returned on is empty (for
\* bidirectional: one of the two).
FrontierExhausted(f) ==
    IF f.algo = "bidirectional"
    THEN Len(f.frontier) = 0 \/ Len(f.queueEnd) = 0
    ELSE Len(f.frontier) = 0 /\ Len(f.pq) = 0

\* C22: every call of a variant eventually returns a Result -- a path, or
\* null with its frontier exhausted -- provided each onVisit call returns.
C22_EveryRunReturns ==
    (runs # <<>>) ~>
        (/\ runs # <<>>
         /\ Returned(runs[1])
         /\ (runs[1].result.path = Null => FrontierExhausted(runs[1])))

\* A search that was resumed several times and returned null with its
\* frontier exhausted.
C22_Witness ==
    \E i \in DOMAIN runs :
        /\ Returned(runs[i])
        /\ Len(runs[i].visits) >= 4
        /\ runs[i].result.path = Null
        /\ FrontierExhausted(runs[i])

\* ------------------------------------------------------------------- C23
OneWay == AlgoNames \ {"bidirectional"}

\* C23: in dfs, bfs, dijkstra, astar and greedy a run returns a path exactly
\* when it expands the goal: the goal is the last coordinate handed to
\* onVisit, it was handed once, and a run that has not expanded the goal has
\* returned no path, however long the goal has been in the frontier.
C23_StopsWhenGoalIsExpanded ==
    \A i \in DOMAIN runs :
        (Returned(runs[i]) /\ runs[i].algo \in OneWay) =>
            LET f == runs[i]
                n == Len(f.visits)
            IN  IF f.result.path # Null
                THEN /\ n >= 1
                     /\ SameCell(f.visits[n], f.called.end)
                     /\ \A k \in 1 .. n - 1 :
                            ~SameCell(f.visits[k], f.called.end)
                ELSE \A k \in 1 .. n : ~SameCell(f.visits[k], f.called.end)

\* A bfs that went on expanding other coordinates after it had enqueued the
\* goal, and returned the path when the goal came off the queue.
C23_Witness ==
    \E i \in DOMAIN runs :
        /\ HasPath(runs[i])
        /\ runs[i].algo = "bfs"
        /\ Len(runs[i].visits) >= 3
        /\ SameCell(runs[i].visits[Len(runs[i].visits)], runs[i].called.end)
        /\ ~SameCell(runs[i].parent[Key(runs[i].called.end)],
                     runs[i].visits[Len(runs[i].visits) - 1])

\* ------------------------------------------------------------------- C24
\* The positions of a sequence that hold the coordinate c.
Positions(path, c) == {k \in DOMAIN path : SameCell(path[k], c)}

\* C24: the path bidirectional returns is simple and is made of the two
\* parent chains: it runs from start to end, no coordinate appears twice,
\* the meeting coordinate (the one being expanded at the return) appears
\* once, every coordinate up to it follows its forward parent and every
\* coordinate from it on precedes its backward parent.
C24_BidirectionalPathIsSimple ==
    \A i \in DOMAIN runs :
        (HasPath(runs[i]) /\ runs[i].algo = "bidirectional") =>
            LET f == runs[i]
                path == f.result.path
                n == Len(path)
            IN  /\ n >= 1
                /\ SameCell(path[1], f.called.start)
                /\ SameCell(path[n], f.called.end)
                /\ \A j, k \in 1 .. n : SameCell(path[j], path[k]) => j = k
                /\ \E m \in 1 .. n :
                       /\ Positions(path, f.current) = {m}
                       /\ \A j \in 2 .. m :
                              MapGet(f.parent, Key(path[j])) = path[j - 1]
                       /\ \A j \in m .. n - 1 :
                              MapGet(f.parentEnd, Key(path[j])) = path[j + 1]

\* The two searches met in the middle: both chains of the path have links.
C24_Witness ==
    \E i \in DOMAIN runs :
        /\ HasPath(runs[i])
        /\ runs[i].algo = "bidirectional"
        /\ \E m \in 3 .. Len(runs[i].result.path) - 2 :
               Positions(runs[i].result.path, runs[i].current) = {m}

\* ------------------------------------------------------------------- C25
\* The awaits of a bidirectional run alternate, the forward one first.
Alternates(awaits) ==
    \A k \in DOMAIN awaits :
        awaits[k] = IF k % 2 = 1 THEN "awaitVisit" ELSE "awaitVisitEnd"

\* C25: bidirectional expands one coordinate per direction in strict
\* alternation, the forward search first, so forward expansions exceed
\* backward ones by 0 or 1.  The emptiness of the frontiers is tested at the
\* head of the loop only: a forward expansion needs both frontiers
\* non-empty, the backward expansion of the same round is made even when the
\* forward expansion has left the forward frontier empty (it meets nothing
\* then), and null is returned after a backward expansion, with one of the
\* frontiers empty.
C25_AlternationAndLoopExit ==
    \A i \in DOMAIN runs :
        runs[i].algo = "bidirectional" =>
            LET f == runs[i]
            IN  /\ Alternates(f.awaits)
                /\ f.pc = "awaitVisit" => Len(f.queueEnd) > 0
                /\ (f.pc = "awaitVisitEnd" /\ Len(f.frontier) = 0) =>
                       Key(f.current) \notin f.visited
                /\ (Returned(f) /\ f.result.path = Null) =>
                       /\ Len(f.frontier) = 0 \/ Len(f.queueEnd) = 0
                       /\ Len(f.awaits) >= 2
                       /\ Len(f.awaits) % 2 = 0

\* The forward frontier ran dry in the second round or later and the
\* backward search is making its expansion of that round all the same.
C25_Witness ==
    \E i \in DOMAIN runs :
        /\ runs[i].algo = "bidirectional"
        /\ runs[i].pc = "awaitVisitEnd"
        /\ Len(runs[i].frontier) = 0
        /\ Len(runs[i].awaits) >= 4

\* C25 as stated: strict alternation, and no expansion is made once either
\* frontier is empty -- the run ends with null as soon as one is.
C25_EndsAsSoonAsAFrontierIsEmpty ==
    \A i \in DOMAIN runs :
        runs[i].algo = "bidirectional" =>
            /\ Alternates(runs[i].awaits)
            /\ runs[i].pc = "awaitVisit" => Len(runs[i].queueEnd) > 0
            /\ runs[i].pc = "awaitVisitEnd" => Len(runs[i].frontier) > 0

\* ------------------------------------------------------------------- C26
\* The coordinates the search in progress has marked: dijkstra and astar
\* record a coordinate in distances / gScore when they enqueue it, the
\* others in their visited set (bidirectional: the set of the direction
\* that is expanding).
Marked(f) ==
    IF f.algo = "dijkstra" \/ f.algo \in AstarVariants
    THEN {k \in DOMAIN f.maze.grid : MapGet(f.dist, k) # Undefined}
    ELSE IF f.pc = "awaitVisitEnd" THEN f.visitedEnd ELSE f.visited

\* The coordinate being processed ends the search: it is the goal, or for
\* bidirectional a coordinate the other direction has marked.
EndsSearch(f) ==
    IF f.algo = "bidirectional"
    THEN Key(f.current) \in
             (IF f.pc = "awaitVisitEnd" THEN f.visited ELSE f.visitedEnd)
    ELSE AtEnd(f)

\* C26: whenever a run is suspended at await onVisit, the coordinate it
\* dequeued last has been expanded: unless that coordinate ends the search,
\* every walkable neighbour of it is marked.
C26_SuspendedAfterExpansion ==
    \A i \in DOMAIN runs :
        (Suspended(runs[i]) /\ ~EndsSearch(runs[i])) =>
            \A k \in DOMAIN Neighbors(runs[i]) :
                Key(Neighbors(runs[i])[k]) \in Marked(runs[i])

\* ------------------------------------------------------------------- C27
\* Entry i of allResults is what algorithm i of the list returns on maze m.
ComputedOn(result, i, m) ==
    /\ result.name = algorithms[i].label
    /\ result.path = RunToEnd(algorithms[i].name, m, "noop").result.path
    /\ result.nodesExplored =
           RunToEnd(algorithms[i].name, m, "noop").result.nodesExplored

\* C27: whenever runAllAlgorithms has filled allResults (and goes on to
\* displayComparison), allResults holds exactly seven entries, in the order
\* of the algorithms list, each of them what its algorithm returns on the
\* maze as it was when the batch was started, and the maze is as it was --
\* also with visualised runs suspended in their sleep and after edits and
\* earlier batches.
C27_BatchIsSequential ==
    [][allResults' # allResults =>
          /\ Len(allResults') = 7
          /\ \A i \in 1 .. 7 : ComputedOn(allResults'[i], i, maze)
          /\ maze' = maze]_vars

\* A batch was run while a visualised run was suspended in its sleep.
C27_Witness ==
    /\ Len(allResults) = 7
    /\ \A i \in 1 .. 7 : allResults[i].name = algorithms[i].label
    /\ \E i \in DOMAIN runs : Suspended(runs[i])
    /\ \A i \in 1 .. 7 : ComputedOn(allResults[i], i, maze)

\* ------------------------------------------------------------------- C28
\* C28: in a maze of at least 3 x 3 cells, after any sequence of Maze
\* operations with in-bounds arguments (construction, clear, generateRandom,
\* generatePerfect, setWall, setStart, setEnd) the cells start and end point
\* at are not walls.
C28_StartAndEndAreWalkable ==
    (maze.rows >= 3 /\ maze.cols >= 3) =>
        /\ maze.grid[Key(maze.start)] # 1
        /\ maze.grid[Key(maze.end)] # 1

\* ------------------------------------------------------------------- C29
\* C29: whatever generatePerfect() makes of a freshly constructed
\* Maze(rows, cols) with rows >= 3 and cols >= 3, whichever neighbours the
\* generator draws, its end cell is reachable from its start cell: no call
\* leaves a maze that is such an outcome and has no route from start to end.
C29_PerfectMazeIsSolvable ==
    [][(/\ maze'.rows >= 3
        /\ maze'.cols >= 3
        /\ maze' # maze
        /\ ~Reachable(maze')) =>
           maze' \notin generatePerfect(Maze(maze'.rows, maze'.cols))]_vars

\* ------------------------------------------------------------------- C30
\* Every entry of the map `before` is in `after` with the same value.
KeepsEntries(before, after) ==
    \A k \in DOMAIN before : k \in DOMAIN after /\ after[k] = before[k]

\* The dijkstra run returned what bfs returns on the same maze, having
\* handed onVisit the same coordinates in the same order.
SameAsBfs(f) ==
    /\ f.visits = RunToEnd("bfs", f.called, "noop").visits
    /\ f.result.path = RunToEnd("bfs", f.called, "noop").result.path
    /\ f.result.nodesExplored =
           RunToEnd("bfs", f.called, "noop").result.nodesExplored

\* C30: all steps cost 1, so dijkstra coincides with bfs: a dijkstra run
\* never overwrites a distance or a parent it has recorded, and when it
\* returns it has expanded the coordinates bfs expands, in the same order,
\* and returns the same path and the same nodesExplored.
C30_DijkstraCoincidesWithBfs ==
    [][\A i \in DOMAIN runs' :
           runs'[i].algo = "dijkstra" =>
               /\ i \in DOMAIN runs =>
                      /\ KeepsEntries(runs[i].dist, runs'[i].dist)
                      /\ KeepsEntries(runs[i].parent, runs'[i].parent)
               /\ Returned(runs'[i]) => SameAsBfs(runs'[i])]_vars

\* A dijkstra run on a maze with two equally short routes to a coordinate
\* returned bfs's path after reaching that coordinate a second time.
C30_Witness ==
    \E i \in DOMAIN runs :
        /\ HasPath(runs[i])
        /\ runs[i].algo = "dijkstra"
        /\ Len(runs[i].result.path) >= 3
        /\ SameAsBfs(runs[i])
        /\ \E k \in DOMAIN runs[i].parent :
               \E j \in DOMAIN runs[i].visits :
                   /\ Adjacent(Key(runs[i].visits[j]), k)
                   /\ runs[i].visits[j] # runs[i].parent[k]
                   /\ runs[i].dist[Key(runs[i].visits[j])] + 1 = runs[i].dist[k]

============================================================================
